---- MODULE Spec2Model ----
(***************************************************************************)
(* SSHConnection (src/vm_connection/ssh_connection.py) as a state machine. *)
(*                                                                         *)
(* One SSHConnection object, one caller.  A method call is a frame with a  *)
(* program counter; a callee's outcome is handed to its caller in `ret`.   *)
(* The two stream_reader threads of execute(), the remote command and the  *)
(* transport are separate processes that interleave with the caller.       *)
(* Strings are sequences of one-character strings.  Time is in seconds.    *)
(***************************************************************************)
EXTENDS Integers, Sequences, FiniteSets

\* ---------------------------------------------------------------- bounds
MaxCalls == 4        \* calls the caller makes over a run
MaxCommands == 2     \* remote commands started over a run
MaxClients == 2      \* SSHClient objects created over a run
MaxLines == 2        \* lines the remote command writes per stream
MaxRetries == 2      \* largest `retries` argument of reconnect()
MaxTimeout == 1      \* largest `timeout` argument of a caller's execute()

\* ------------------------------------------------------ program constants
PollInterval == 1    \* output_queue.get(timeout=1)
JoinGrace == 2       \* thread.join(timeout=2)
BootTimeout == 5     \* execute(..., timeout=5) in get_boot_time

NULL == 0            \* None, for client and transport (objects are 1, 2, ...)
None == <<>>         \* None, for boot_time (a value v is <<v>>)
Streams == {"stdout", "stderr"}
Whitespace == {" ", "\n"}
Digits == {"7"}
LineSet == {<<" ", "7", "\n">>}

VARIABLES
    client,          \* self.client: NULL or the SSHClient object
    transport,       \* self.transport: NULL or a transport (named by its client)
    boot_time,       \* self.boot_time: None or <<seconds>>
    nextId,          \* the next SSHClient object
    active,          \* clients whose transport is_active()
    good,            \* clients whose connect() returned normally
    now,             \* time.time()
    al,              \* the is_alive() frame
    rc,              \* the reconnect() frame
    cn,              \* the connect() frame
    gb,              \* the get_boot_time() frame
    ex,              \* the execute() frame
    output_queue,    \* execute's output_queue
    thread,          \* the two reader threads of the latest execute()
    remote,          \* the remote command started by the latest exec_command
    cb_log,          \* the strings passed to output_callback, in order
    ret,             \* the outcome of the call that finished last
    calls,           \* the number of calls the caller has made
    commands,        \* the number of remote commands started
    obs              \* what the running top-level call did so far

vars == <<client, transport, boot_time, nextId, active, good, now, al, rc, cn, gb,
          ex, output_queue, thread, remote, cb_log, ret, calls, commands, obs>>

session == <<client, transport, boot_time>>
handles == <<nextId, active, good>>
locals == <<output_queue, thread, remote, cb_log>>
budget == <<calls, commands>>

\* ------------------------------------------------------------- strings
RECURSIVE LStrip(_)
LStrip(s) ==
    IF s # <<>> /\ Head(s) \in Whitespace THEN LStrip(Tail(s)) ELSE s

RECURSIVE RStrip(_)
RStrip(s) ==
    IF s # <<>> /\ s[Len(s)] \in Whitespace
    THEN RStrip(SubSeq(s, 1, Len(s) - 1))
    ELSE s

\* str.strip()
Strip(s) == RStrip(LStrip(s))

\* f"[{stream_name}]: {line.strip()}"
Format(stream_name, line) == <<"[", stream_name, "]", ":", " ">> \o Strip(line)

\* float(s) raises ValueError unless s is a number
IsNumber(s) == s # <<>> /\ \A i \in 1..Len(s) : s[i] \in Digits

DigitVal == [c \in Digits |-> 7]

RECURSIVE ParseFloat(_)
ParseFloat(s) ==
    IF s = <<>>
    THEN 0
    ELSE 10 * ParseFloat(SubSeq(s, 1, Len(s) - 1)) + DigitVal[s[Len(s)]]

\* ------------------------------------------------------------- frames
Returned(m, v) == [m |-> m, kind |-> "return", exc |-> "", val |-> v]
Raised(m, e) == [m |-> m, kind |-> "raise", exc |-> e, val |-> 0]

NoRet == [m |-> "", kind |-> "none", exc |-> "", val |-> 0]

IdleRc == [pc |-> "idle", force |-> FALSE, retries |-> 0, delay |-> 0, attempt |-> 0,
           saw_active |-> FALSE, looped |-> FALSE]
IdleAl == [pc |-> "idle"]
IdleCn == [pc |-> "idle", caller |-> "user"]
IdleGb == [pc |-> "idle", caller |-> "user"]
IdleEx == [pc |-> "idle", caller |-> "user", timeout |-> 0, cb |-> FALSE,
           start_time |-> 0, stdout_done |-> FALSE, stderr_done |-> FALSE,
           raising |-> "", exec_issued |-> FALSE, exit_reads |-> 0,
           elapsed |-> -1]
NoRemote == [lines |-> [s \in Streams |-> <<>>],
             exited |-> TRUE, exit_status |-> 0, in_time |-> FALSE]
Delays == {2}        \* the `delay` argument of reconnect() (its default)
ExitStatuses == {0, 1}
NoObs == [op |-> "", connects |-> 0, closes |-> 0, logged |-> 0, errors |-> <<>>,
          uptime_ok |-> FALSE, pre |-> <<NULL, NULL, None>>,
          arg |-> None, probe |-> None, inner |-> "", output_lines |-> <<>>,
          uptime |-> None]

Idle ==
    /\ al.pc = "idle" /\ rc.pc = "idle" /\ cn.pc = "idle"
    /\ gb.pc = "idle" /\ ex.pc = "idle"

Init ==
    /\ client = NULL /\ transport = NULL /\ boot_time = None
    /\ nextId = 1 /\ active = {} /\ good = {}
    /\ now = 0
    /\ al = IdleAl /\ rc = IdleRc /\ cn = IdleCn /\ gb = IdleGb /\ ex = IdleEx
    /\ output_queue = <<>>
    /\ thread = [s \in Streams |-> "none"]
    /\ remote = NoRemote
    /\ cb_log = <<>>
    /\ ret = NoRet
    /\ calls = 0
    /\ commands = 0
    /\ obs = NoObs

StartObs(op) == [NoObs EXCEPT !.op = op, !.pre = <<client, transport, boot_time>>]

\* ------------------------------------------------------------ execute()
\* lines 45-68: the session check, exec_command, the queue, the two threads.
\* exec_command raises SSHException on a client whose transport is not active.
execute_begin ==
    /\ ex.pc = "start"
    /\ IF ~(client # NULL)
       THEN /\ ex' = [ex EXCEPT !.pc = "idle"]
            /\ ret' = Raised("execute", "ConnectionFailed")
            /\ UNCHANGED <<output_queue, thread, remote, commands>>
       ELSE IF client \notin active
       THEN /\ ex' = [ex EXCEPT !.pc = "idle", !.exec_issued = TRUE]
            /\ ret' = Raised("execute", "SSHException")
            /\ UNCHANGED <<output_queue, thread, remote, commands>>
       ELSE /\ remote' = [NoRemote EXCEPT !.exited = FALSE]
            /\ output_queue' = <<>>
            /\ thread' = [s \in Streams |-> "running"]
            /\ ex' = [ex EXCEPT !.pc = "drain", !.exec_issued = TRUE,
                                !.start_time = now, !.stdout_done = FALSE,
                                !.stderr_done = FALSE]
            /\ commands' = commands + 1
            /\ UNCHANGED ret
    /\ UNCHANGED <<session, handles, now, al, rc, cn, gb, cb_log, calls, obs>>

\* The readers and the remote command run on their own, also after execute()
\* gave up on them: their steps are taken while execute() drains or joins and
\* after it has returned or raised to the user, until the user's next call
\* (get_boot_time goes on at once when its execute() has finished).
Observable ==
    \/ ex.pc \in {"drain", "join"}
    \/ ex.pc = "idle" /\ ret.m = "execute" /\ ex.caller = "user"

\* a reader that calls the output callback itself
stream_reader_Calls(s) ==
    /\ Observable
    /\ thread[s] = "running"
    /\ remote.lines[s] # <<>> \/ remote.exited
    /\ thread' = [thread EXCEPT ![s] = "dead"]
    /\ cb_log' = Append(cb_log, <<"[", s, "]">>)
    /\ UNCHANGED <<session, handles, now, al, rc, cn, gb, ex, output_queue, remote,
                   ret, budget, obs>>

\* lines 55-58: the thread evaluates iter(stream.readline(), ''): readline()
\* blocks for a line or end of stream and returns a str, and iter() of a str
\* and a sentinel raises TypeError, which ends the thread before any put().
stream_reader(s) ==
    /\ Observable
    /\ thread[s] = "running"
    /\ remote.lines[s] # <<>> \/ remote.exited
    /\ thread' = [thread EXCEPT ![s] = "dead"]
    /\ UNCHANGED <<session, handles, now, al, rc, cn, gb, ex, output_queue, remote,
                   cb_log, ret, budget, obs>>

\* the deadline test with > for >=
DeadlinePassed_Strict(t, start_time, timeout) == t - start_time > timeout

\* line 77: time.time() - start_time >= timeout
DeadlinePassed(t, start_time, timeout) == t - start_time >= timeout

\* lines 71-89: one iteration of the drain loop.
execute_drain ==
    /\ ex.pc = "drain"
    /\ IF output_queue = <<>>
       THEN LET t == now + PollInterval IN
            /\ now' = t
            /\ ex' = [ex EXCEPT
                        !.elapsed = t - ex.start_time,
                        !.raising = IF DeadlinePassed(t, ex.start_time, ex.timeout)
                                    THEN "CommandTimeout" ELSE @,
                        !.pc = IF DeadlinePassed(t, ex.start_time, ex.timeout)
                               THEN "join" ELSE @]
            /\ UNCHANGED <<output_queue, cb_log>>
       ELSE LET stream_name == Head(output_queue)[1]
                line == Head(output_queue)[2]
                out_done == ex.stdout_done \/ (line = None /\ stream_name = "stdout")
                err_done == ex.stderr_done \/ (line = None /\ stream_name = "stderr")
            IN
            /\ output_queue' = Tail(output_queue)
            /\ ex' = [ex EXCEPT !.stdout_done = out_done, !.stderr_done = err_done,
                                !.pc = IF out_done /\ err_done THEN "join" ELSE @]
            /\ cb_log' = IF line # None /\ ex.cb
                         THEN Append(cb_log, Format(stream_name, line))
                         ELSE cb_log
            /\ UNCHANGED now
    /\ UNCHANGED <<session, handles, al, rc, cn, gb, thread, remote, ret, budget, obs>>

\* an execute() that reads the exit status in its finally block
ExitReads_InFinally(raising) == 1

\* lines 94-95 run only when the try block ended without raising: the
\* number of times recv_exit_status() is read
ExitReads(raising) == IF raising = "" THEN 2 ELSE 0

\* lines 90-95: join each thread for at most JoinGrace seconds, then re-raise
\* CommandTimeout or read the exit status (recv_exit_status waits for the
\* remote command to exit; it is read for the print and for the return).
execute_finally ==
    /\ ex.pc = "join"
    /\ ex.raising = "" => remote.exited
    /\ now' = now + JoinGrace * Cardinality({s \in Streams : thread[s] = "running"})
    /\ ex' = [ex EXCEPT !.pc = "idle", !.exit_reads = ExitReads(ex.raising)]
    /\ ret' = IF ex.raising # ""
              THEN Raised("execute", ex.raising)
              ELSE Returned("execute", remote.exit_status)
    /\ UNCHANGED <<session, handles, al, rc, cn, gb, locals, budget, obs>>

\* the remote command writes a line to one of its streams
remote_emit(s) ==
    /\ Observable
    /\ ~remote.exited
    /\ Len(remote.lines[s]) < MaxLines
    /\ \E line \in LineSet :
         remote' = [remote EXCEPT !.lines[s] = Append(@, line)]
    /\ UNCHANGED <<session, handles, now, al, rc, cn, gb, ex, output_queue, thread,
                   cb_log, ret, budget, obs>>

\* the remote command exits: both streams reach end of stream
remote_exit ==
    /\ Observable
    /\ ~remote.exited
    /\ \E status \in ExitStatuses :
         remote' = [remote EXCEPT !.exited = TRUE, !.exit_status = status,
                                  !.in_time = ex.pc = "drain" /\
                                      ~DeadlinePassed(now, ex.start_time, ex.timeout)]
    /\ UNCHANGED <<session, handles, now, al, rc, cn, gb, ex, output_queue, thread,
                   cb_log, ret, budget, obs>>

\* ------------------------------------------------------- get_boot_time()
\* lines 159-165: output_lines = [] and the call of execute
get_boot_time_begin ==
    /\ gb.pc = "start"
    /\ gb' = [gb EXCEPT !.pc = "wait"]
    /\ cb_log' = <<>>
    /\ ex' = [IdleEx EXCEPT !.pc = "start", !.caller = "get_boot_time",
                            !.timeout = BootTimeout, !.cb = TRUE]
    /\ UNCHANGED <<session, handles, now, al, rc, cn, output_queue, thread, remote,
                   ret, budget, obs>>

\* lines 166-173.  The handler of (ValueError, CommandTimeout) formats an
\* unbound name `e`, so it raises NameError; other errors pass through.
GetBootTimeOutcome ==
    IF ret.kind = "return"
    THEN IF cb_log = <<>>
         THEN Raised("get_boot_time", "BootTimeUnavailable")
         ELSE LET uptime_str == Strip(cb_log[1]) IN
              IF IsNumber(uptime_str)
              THEN Returned("get_boot_time", now - ParseFloat(uptime_str))
              ELSE Raised("get_boot_time", "NameError")
    ELSE IF ret.exc \in {"ValueError", "CommandTimeout"}
    THEN Raised("get_boot_time", "NameError")
    ELSE Raised("get_boot_time", ret.exc)

\* the uptime command wrote one numeric line to stdout, nothing to stderr, and
\* exited before the deadline of its execute()
UptimeRan ==
    /\ Len(remote.lines["stdout"]) = 1 /\ IsNumber(Strip(remote.lines["stdout"][1]))
    /\ remote.lines["stderr"] = <<>>
    /\ remote.in_time

\* On return the locals of get_boot_time and of its execute() go out of scope.
get_boot_time_resume ==
    /\ gb.pc = "wait" /\ ex.pc = "idle"
    /\ ret' = GetBootTimeOutcome
    /\ gb' = [gb EXCEPT !.pc = "idle"]
    /\ obs' = [obs EXCEPT !.uptime_ok = UptimeRan,
                          !.uptime = IF UptimeRan
                                     THEN <<ParseFloat(Strip(remote.lines["stdout"][1]))>>
                                     ELSE None,
                          !.inner = IF ret.kind = "raise" THEN ret.exc ELSE ret.kind,
                          !.output_lines = cb_log]
    /\ ex' = IdleEx
    /\ output_queue' = <<>>
    /\ thread' = [s \in Streams |-> "none"]
    /\ remote' = NoRemote
    /\ cb_log' = <<>>
    /\ UNCHANGED <<session, handles, now, al, rc, cn, budget>>

\* ------------------------------------------------------------- connect()
\* the transport-layer errors connect() catches (line 42)
TransportErrors == {"SSHException", "socket.error"}

\* lines 29-41 up to the call of get_boot_time.  `step` is the step at which
\* the transport layer fails ("" when none does) and `err` the error it raises.
connect_begin ==
    /\ cn.pc = "start"
    /\ obs' = [obs EXCEPT !.connects = @ + 1, !.uptime_ok = FALSE]
    /\ \E step \in {"key", "open", ""}, err \in TransportErrors :
         IF step = "key"
         THEN /\ ret' = Raised("connect", "ConnectionFailed")
              /\ cn' = [cn EXCEPT !.pc = "idle"]
              /\ UNCHANGED <<session, handles, gb>>
         ELSE /\ client' = nextId
              /\ nextId' = nextId + 1
              /\ IF step = "open"
                 THEN /\ ret' = Raised("connect", "ConnectionFailed")
                      /\ cn' = [cn EXCEPT !.pc = "idle"]
                      /\ UNCHANGED <<transport, active, gb>>
                 ELSE /\ transport' = nextId
                      /\ active' = active \cup {nextId}
                      /\ gb' = [gb EXCEPT !.pc = "start", !.caller = "connect"]
                      /\ cn' = [cn EXCEPT !.pc = "wait"]
                      /\ UNCHANGED ret
              /\ UNCHANGED <<boot_time, good>>
    /\ UNCHANGED <<now, al, rc, ex, locals, budget>>

\* lines 41-43: store the boot time, or wrap a transport-layer error
connect_resume ==
    /\ cn.pc = "wait" /\ gb.pc = "idle"
    /\ cn' = [cn EXCEPT !.pc = "idle"]
    /\ IF ret.kind = "return"
       THEN /\ boot_time' = <<ret.val>>
            /\ good' = good \cup {client}
            /\ ret' = Returned("connect", 0)
       ELSE /\ ret' = IF ret.exc \in TransportErrors
                      THEN Raised("connect", "ConnectionFailed")
                      ELSE Raised("connect", ret.exc)
            /\ UNCHANGED <<boot_time, good>>
    /\ UNCHANGED <<client, transport, nextId, active, now, al, rc, gb, ex, locals, budget,
                   obs>>

\* ----------------------------------------------------------- reconnect()
\* transport.is_active() of line 136
is_active(t) == t \in active

\* lines 135-143: the no-op test and the close of the existing client
reconnect_begin ==
    /\ rc.pc = "start"
    /\ IF ~rc.force /\ client # NULL /\ transport # NULL /\ is_active(transport)
       THEN /\ rc' = [rc EXCEPT !.pc = "idle", !.saw_active = TRUE]
            /\ ret' = Returned("reconnect", 0)
            /\ UNCHANGED <<client, active, obs>>
       ELSE /\ rc' = [rc EXCEPT !.pc = "loop", !.attempt = 0, !.looped = TRUE,
                                !.saw_active = transport # NULL /\ is_active(transport)]
            /\ IF client # NULL
               THEN /\ active' = active \ {client}
                    /\ obs' = [obs EXCEPT !.closes = @ + 1]
                    /\ client' = NULL
               ELSE UNCHANGED <<client, active, obs>>
            /\ UNCHANGED ret
    /\ UNCHANGED <<transport, boot_time, nextId, good, now, al, cn, gb, ex, locals, budget>>

\* lines 145-148 and 155: the next attempt, or the final ConnectionFailed
reconnect_loop ==
    /\ rc.pc = "loop"
    /\ IF rc.attempt < rc.retries
       THEN /\ rc' = [rc EXCEPT !.pc = "wait"]
            /\ cn' = [cn EXCEPT !.pc = "start", !.caller = "reconnect"]
            /\ UNCHANGED ret
       ELSE /\ rc' = [rc EXCEPT !.pc = "idle"]
            /\ ret' = Raised("reconnect", "ConnectionFailed")
            /\ UNCHANGED cn
    /\ UNCHANGED <<session, handles, now, al, gb, ex, locals, budget, obs>>

\* a handler that catches ConnectionFailed only
Exceptions_Narrow == {"ConnectionFailed"}

\* the error types `except Exception` (lines 104, 151) catches
Exceptions == {"ConnectionFailed", "CommandTimeout", "BootTimeUnavailable",
               "UnexpectedRebootDetected", "NameError", "ValueError",
               "SSHException", "socket.error"}

\* lines 149-153: return after a success; log, sleep and go on after a failure
reconnect_resume ==
    /\ rc.pc = "wait" /\ cn.pc = "idle"
    /\ IF ret.kind = "return"
       THEN /\ rc' = [rc EXCEPT !.pc = "idle"]
            /\ ret' = Returned("reconnect", 0)
            /\ UNCHANGED <<now, obs>>
       ELSE IF ret.exc \in Exceptions
       THEN /\ obs' = [obs EXCEPT !.logged = @ + 1, !.errors = Append(@, ret.exc)]
            /\ now' = now + rc.delay
            /\ rc' = [rc EXCEPT !.pc = "loop", !.attempt = @ + 1]
            /\ UNCHANGED ret
       ELSE /\ rc' = [rc EXCEPT !.pc = "idle"]
            /\ ret' = Raised("reconnect", ret.exc)
            /\ UNCHANGED <<now, obs>>
    /\ UNCHANGED <<session, handles, al, cn, gb, ex, locals, budget>>

\* ------------------------------------------------------------ the caller
\* The caller makes its next call when the previous one has finished.  The
\* frames, threads and remote command of the previous call are dropped then:
\* nothing of them is reachable from the new call.
\* `cost` is the largest number of remote commands the call can start
CanCall(cost) == Idle /\ calls < MaxCalls /\ commands + cost <= MaxCommands

NewCall ==
    /\ calls' = calls + 1
    /\ output_queue' = <<>>
    /\ thread' = [s \in Streams |-> "none"]
    /\ remote' = NoRemote
    /\ cb_log' = <<>>
    /\ UNCHANGED commands

call_connect ==
    /\ CanCall(1) /\ nextId <= MaxClients
    /\ NewCall
    /\ obs' = StartObs("connect")
    /\ cn' = [IdleCn EXCEPT !.pc = "start", !.caller = "user"]
    /\ al' = IdleAl /\ rc' = IdleRc /\ gb' = IdleGb /\ ex' = IdleEx /\ ret' = NoRet
    /\ UNCHANGED <<session, handles, now>>

call_execute ==
    /\ CanCall(IF client # NULL /\ client \in active THEN 1 ELSE 0)
    /\ NewCall
    /\ obs' = StartObs("execute")
    /\ \E timeout \in 0..MaxTimeout, cb \in BOOLEAN :
         ex' = [IdleEx EXCEPT !.pc = "start", !.caller = "user",
                              !.timeout = timeout, !.cb = cb]
    /\ al' = IdleAl /\ rc' = IdleRc /\ cn' = IdleCn /\ gb' = IdleGb /\ ret' = NoRet
    /\ UNCHANGED <<session, handles, now>>

call_reconnect ==
    /\ Idle /\ calls < MaxCalls
    /\ NewCall
    /\ obs' = StartObs("reconnect")
    /\ \E force \in BOOLEAN, retries \in 0..MaxRetries, delay \in Delays :
         /\ nextId + retries - 1 <= MaxClients
         /\ commands + retries <= MaxCommands
         /\ rc' = [IdleRc EXCEPT !.pc = "start", !.force = force,
                                  !.retries = retries, !.delay = delay]
    /\ al' = IdleAl /\ cn' = IdleCn /\ gb' = IdleGb /\ ex' = IdleEx /\ ret' = NoRet
    /\ UNCHANGED <<session, handles, now>>

\* ---------------------------------------------------------- disconnect()
\* lines 175-179
disconnect ==
    /\ CanCall(0)
    /\ NewCall
    /\ IF client # NULL
       THEN /\ active' = active \ {client}
            /\ obs' = [StartObs("disconnect") EXCEPT !.closes = 1]
            /\ client' = NULL
            /\ transport' = NULL
       ELSE /\ obs' = StartObs("disconnect")
            /\ UNCHANGED <<client, transport, active>>
    /\ ret' = Returned("disconnect", 0)
    /\ al' = IdleAl /\ rc' = IdleRc /\ cn' = IdleCn /\ gb' = IdleGb /\ ex' = IdleEx
    /\ UNCHANGED <<boot_time, nextId, good, now>>

\* ----------------------------------------------------- check_for_reboot()
BootTimes == {0, 5, 11}    \* the readings a caller passes
Tolerance == 5               \* abs(boot_time - self.boot_time) > 5

Abs(x) == IF x < 0 THEN -x ELSE x

\* line 114: `self.boot_time and abs(boot_time - self.boot_time) > 5`; the
\* left operand is tested for truth, and None and 0 are both false.
RebootDetected(b, current) ==
    b # None /\ b[1] # 0 /\ Abs(current - b[1]) > Tolerance

\* a detector that keeps the old baseline when it raises
BaselineAfter_KeepOnRaise(b, current) == IF b = None THEN <<current>> ELSE b

\* lines 115 and 118-119: self.boot_time after the call
BaselineAfter(b, current) ==
    IF RebootDetected(b, current) \/ b = None THEN <<current>> ELSE b

\* lines 113-119
check_for_reboot ==
    /\ CanCall(0)
    /\ NewCall
    /\ \E current \in BootTimes :
         /\ obs' = [StartObs("check_for_reboot") EXCEPT !.arg = <<current>>]
         /\ boot_time' = BaselineAfter(boot_time, current)
         /\ ret' = IF RebootDetected(boot_time, current)
                   THEN Raised("check_for_reboot", "UnexpectedRebootDetected")
                   ELSE Returned("check_for_reboot", 0)
    /\ al' = IdleAl /\ rc' = IdleRc /\ cn' = IdleCn /\ gb' = IdleGb /\ ex' = IdleEx
    /\ UNCHANGED <<client, transport, handles, now>>

\* ------------------------------------------------------------ ping_host()
ReturnCodes == {0, 1}

\* what subprocess.run does: it raises, or the probe exits with a return code
Probes == {[error |-> TRUE, returncode |-> -1]} \cup
          {[error |-> FALSE, returncode |-> r] : r \in ReturnCodes}

\* a probe that counts as a success whenever it could be invoked
PingResult_AnyExit(probe) == ~probe.error

\* lines 122-132: result.returncode == 0, and False from the handler
PingResult(probe) == ~probe.error /\ probe.returncode = 0

\* lines 121-132; True is 1 and False is 0
ping_host ==
    /\ CanCall(0)
    /\ NewCall
    /\ \E probe \in Probes :
         /\ obs' = [StartObs("ping_host") EXCEPT !.probe = <<probe>>]
         /\ ret' = Returned("ping_host", IF PingResult(probe) THEN 1 ELSE 0)
    /\ al' = IdleAl /\ rc' = IdleRc /\ cn' = IdleCn /\ gb' = IdleGb /\ ex' = IdleEx
    /\ UNCHANGED <<session, handles, now>>

\* ------------------------------------------------------------- is_alive()
call_get_boot_time ==
    /\ CanCall(IF client # NULL /\ client \in active THEN 1 ELSE 0)
    /\ NewCall
    /\ obs' = StartObs("get_boot_time")
    /\ gb' = [IdleGb EXCEPT !.pc = "start", !.caller = "user"]
    /\ al' = IdleAl /\ rc' = IdleRc /\ cn' = IdleCn /\ ex' = IdleEx /\ ret' = NoRet
    /\ UNCHANGED <<session, handles, now>>

call_is_alive ==
    /\ CanCall(IF client # NULL /\ client \in active THEN 1 ELSE 0)
    /\ NewCall
    /\ obs' = StartObs("is_alive")
    /\ al' = [IdleAl EXCEPT !.pc = "start"]
    /\ rc' = IdleRc /\ cn' = IdleCn /\ gb' = IdleGb /\ ex' = IdleEx /\ ret' = NoRet
    /\ UNCHANGED <<session, handles, now>>

\* line 99: the call of get_boot_time
is_alive_begin ==
    /\ al.pc = "start"
    /\ al' = [al EXCEPT !.pc = "wait"]
    /\ gb' = [gb EXCEPT !.pc = "start", !.caller = "is_alive"]
    /\ UNCHANGED <<session, handles, now, rc, cn, ex, locals, ret, budget, obs>>

\* an is_alive() that gives up without looking at the probe
IsAliveFallback_NoPing(probe) == Raised("is_alive", "ConnectionFailed")

\* lines 107-111: the outcome once the SSH-level check has failed
IsAliveFallback(probe) ==
    IF PingResult(probe)
    THEN Returned("is_alive", 1)
    ELSE Raised("is_alive", "ConnectionFailed")

\* lines 100-111: check_for_reboot on the boot time read, and the ping probe
\* when get_boot_time or check_for_reboot raised.
is_alive_resume ==
    /\ al.pc = "wait" /\ gb.pc = "idle"
    /\ al' = [al EXCEPT !.pc = "idle"]
    /\ boot_time' = IF ret.kind = "return"
                     THEN BaselineAfter(boot_time, ret.val)
                     ELSE boot_time
    /\ LET error == IF ret.kind = "raise" THEN ret.exc
                    ELSE IF RebootDetected(boot_time, ret.val)
                    THEN "UnexpectedRebootDetected"
                    ELSE ""
       IN
       IF error = ""
       THEN /\ ret' = Returned("is_alive", 1)
            /\ UNCHANGED obs
       ELSE IF error \notin Exceptions
       THEN /\ ret' = Raised("is_alive", error)
            /\ UNCHANGED obs
       ELSE \E probe \in Probes :
              /\ obs' = [obs EXCEPT !.logged = @ + 1, !.errors = Append(@, error),
                                    !.probe = <<probe>>]
              /\ ret' = IsAliveFallback(probe)
    /\ UNCHANGED <<client, transport, handles, now, rc, cn, gb, ex, locals, budget>>

\* ------------------------------------------------------ the environment
\* the network drops the session's connection: its transport stops
\* reporting active.  The drop is taken at the points where the program is
\* about to look at the connection (is_active in reconnect, exec_command).
transport_drop ==
    /\ rc.pc = "start" \/ ex.pc = "start"
    /\ \E t \in active \cap {client, transport} : active' = active \ {t}
    /\ UNCHANGED <<session, nextId, good, now, al, rc, cn, gb, ex, locals, ret,
                   budget, obs>>

Next ==
    \/ call_connect
    \/ call_execute
    \/ call_reconnect
    \/ call_get_boot_time
    \/ call_is_alive
    \/ disconnect
    \/ check_for_reboot
    \/ ping_host
    \/ is_alive_begin
    \/ is_alive_resume
    \/ connect_begin
    \/ connect_resume
    \/ reconnect_begin
    \/ reconnect_loop
    \/ reconnect_resume
    \/ get_boot_time_begin
    \/ get_boot_time_resume
    \/ execute_begin
    \/ execute_drain
    \/ execute_finally
    \/ \E s \in Streams : stream_reader(s)
    \/ \E s \in Streams : remote_emit(s)
    \/ remote_exit
    \/ transport_drop

Spec == Init /\ [][Next]_vars

\* ================================================================ claims
\* execute() has finished (its outcome is in ret)
ExecuteFinished == ex.pc = "idle" /\ ret.m = "execute"

\* the strings the callback received for stream s, and those it is owed
Delivered(s) == SelectSeq(cb_log, LAMBDA x : x[2] = s)
Owed(s) == [i \in 1..Len(remote.lines[s]) |-> Format(s, remote.lines[s][i])]

\* C1: when the remote command completes before the deadline, every line of
\* each stream reaches the callback exactly once, formatted with its stream's
\* tag and stripped, and execute() returns the command's exit status.
C1_EveryLineDeliveredOnce ==
    (ExecuteFinished /\ remote.in_time) =>
        /\ ret.kind = "return" /\ ret.val = remote.exit_status
        /\ ex.cb => \A s \in Streams : Delivered(s) = Owed(s)

\* C2: for two lines of the same stream, the callback is invoked for the
\* earlier line before the later one.
C2_PerStreamOrder ==
    (ExecuteFinished /\ remote.in_time /\ ex.cb) =>
        \A s \in Streams : \A i, j \in 1..Len(remote.lines[s]) :
            i < j => \E p, q \in 1..Len(cb_log) :
                        /\ p < q
                        /\ cb_log[p] = Format(s, remote.lines[s][i])
                        /\ cb_log[q] = Format(s, remote.lines[s][j])

\* no record has been enqueued so far by either reader
NoRecord ==
    /\ output_queue = <<>> /\ cb_log = <<>>
    /\ ~ex.stdout_done /\ ~ex.stderr_done

\* C3: with no record enqueued, execute() raises CommandTimeout at the first
\* empty poll at which now - start_time >= timeout (while it still drains, no
\* poll has reached the deadline), and it does not read the exit status.
C3_TimeoutAtFirstLatePoll ==
    NoRecord =>
        /\ ex.pc = "drain" => ex.elapsed < ex.timeout
        /\ (ex.pc \in {"join", "idle"} /\ ex.elapsed >= 0) =>
              /\ ex.raising = "CommandTimeout"
              /\ ex.elapsed >= ex.timeout
              /\ ex.exit_reads = 0
              /\ ExecuteFinished => ret = Raised("execute", "CommandTimeout")

\* C3 witness: CommandTimeout raised while both readers are still blocked
C3_Witness ==
    /\ ExecuteFinished /\ ret.exc = "CommandTimeout"
    /\ ex.timeout = 1 /\ ex.elapsed = 1
    /\ \A s \in Streams : thread[s] = "running"

\* C5: with no live session (never connected, the latest client not stored by
\* a connect() that succeeded, or disconnected), execute() raises
\* ConnectionFailed without calling exec_command or starting a reader.
C5_NoSessionNoCommand ==
    (obs.op = "execute" /\ (obs.pre[1] = NULL \/ obs.pre[1] \notin good)) =>
        /\ ~ex.exec_issued
        /\ \A s \in Streams : thread[s] = "none"
        /\ ex.pc = "idle" => ret = Raised("execute", "ConnectionFailed")

\* C6: between calls, a non-null client or transport was stored by a
\* connect() that succeeded.
C6_HandlesFromSuccessfulConnect ==
    Idle =>
        /\ client # NULL => client \in good
        /\ transport # NULL => transport \in good

\* C7: reconnect(force=false) that finds the session's transport active is a
\* no-op: no connect(), no close, client, transport and boot_time unchanged.
C7_ActiveReconnectIsNoop ==
    (obs.op = "reconnect" /\ ~rc.force /\ rc.saw_active) =>
        /\ ~rc.looped
        /\ obs.connects = 0 /\ obs.closes = 0
        /\ <<client, transport, boot_time>> = obs.pre

\* C8: a reconnect() that does reconnect closes the existing client first,
\* calls connect() at most `retries` times, returns right after the first
\* success, and raises ConnectionFailed exactly when all `retries` attempts
\* failed, with one logged failure per attempt, whatever each attempt raised.
C8_RetryPolicy ==
    (obs.op = "reconnect" /\ rc.looped) =>
        /\ obs.pre[1] # NULL => obs.closes = 1
        /\ obs.connects <= rc.retries
        /\ obs.logged <= obs.connects /\ obs.logged = Len(obs.errors)
        /\ (rc.pc = "idle" /\ ret.kind = "return") =>
              /\ obs.logged = obs.connects - 1
              /\ client \in good
        /\ (rc.pc = "idle" /\ ret.kind = "raise") =>
              /\ ret.exc = "ConnectionFailed"
              /\ obs.connects = rc.retries /\ obs.logged = rc.retries
        /\ (rc.pc = "idle" /\ obs.logged = rc.retries) => ret.kind = "raise"
        /\ rc.pc = "idle" => ret.m = "reconnect"

\* C8 witness: two attempts that failed with different error types
C8_Witness ==
    /\ rc.pc = "idle" /\ rc.looped /\ rc.retries = 2
    /\ ret = Raised("reconnect", "ConnectionFailed")
    /\ obs.errors = <<"ConnectionFailed", "NameError">>
    /\ obs.connects = 2 /\ obs.logged = 2

\* connect() has finished (its outcome is in ret)
ConnectFinished == cn.pc = "idle" /\ ret.m = "connect"

C10_OnlyConnectionFailed ==
    (ConnectFinished /\ ret.kind = "raise") => ret.exc = "ConnectionFailed"

\* C11: after disconnect() the session is cleared (client, transport and
\* boot_time null), the connection was closed exactly if one was present, and
\* no error is raised.
C11_DisconnectClears ==
    obs.op = "disconnect" =>
        /\ ret = Returned("disconnect", 0)
        /\ <<client, transport, boot_time>> = <<NULL, NULL, None>>
        /\ obs.closes = IF obs.pre[1] # NULL THEN 1 ELSE 0

\* check_for_reboot() called by the user has finished
CheckFinished == obs.op = "check_for_reboot"

\* C12: check_for_reboot(current) never raises without a baseline, and with
\* a baseline b it raises UnexpectedRebootDetected exactly when
\* |current - b| > 5.
C12_RaisesIffBeyondTolerance ==
    CheckFinished =>
        LET b == obs.pre[3]
            current == obs.arg[1]
        IN /\ b = None => ret.kind = "return"
           /\ b # None =>
                 (ret = Raised("check_for_reboot", "UnexpectedRebootDetected")
                    <=> Abs(current - b[1]) > Tolerance)
           /\ ret.kind = "raise" => ret.exc = "UnexpectedRebootDetected"

\* C13: a check_for_reboot(current) leaves `current` as the baseline if there
\* was none or if it raised, and the previous baseline otherwise; a second
\* check with the same reading right after one that raised does not raise.
C13_BaselineAfterCheck ==
    [][(obs'.op = "check_for_reboot" /\ calls' = calls + 1) =>
          /\ boot_time' = IF boot_time = None \/ ret'.kind = "raise"
                          THEN obs'.arg
                          ELSE boot_time
          /\ (CheckFinished /\ ret.kind = "raise" /\ obs'.arg = obs.arg) =>
                ret'.kind = "return"]_vars

\* C13 witness: a check that raised and left its reading as the baseline
C13_Witness ==
    /\ CheckFinished /\ ret.kind = "raise"
    /\ obs.pre[3] # None /\ obs.pre[3] # obs.arg
    /\ boot_time = obs.arg

\* get_boot_time() has finished (its outcome is in ret)
GetBootTimeFinished == gb.pc = "idle" /\ ret.m = "get_boot_time"

\* C14: when the uptime command completes in time with a single numeric line
\* U on stdout, get_boot_time() returns now - U.
C14_BootTimeFromUptime ==
    (GetBootTimeFinished /\ obs.uptime # None) =>
        ret = Returned("get_boot_time", now - obs.uptime[1])

\* C15: get_boot_time() raises BootTimeUnavailable when its execute() raised
\* CommandTimeout, delivered no line, or delivered a line that is no number.
C15_OnlyBootTimeUnavailable ==
    (/\ GetBootTimeFinished
     /\ \/ obs.inner = "CommandTimeout"
        \/ obs.inner = "return" /\ obs.output_lines = <<>>
        \/ obs.inner = "return" /\ obs.output_lines # <<>>
             /\ ~IsNumber(Strip(obs.output_lines[1])))
    => ret = Raised("get_boot_time", "BootTimeUnavailable")

\* is_alive() has finished (its outcome is in ret)
IsAliveFinished == obs.op = "is_alive" /\ al.pc = "idle" /\ ret.m = "is_alive"

\* C16: is_alive() returns True without the probe when the SSH-level check
\* succeeded; when that check failed, for whatever reason, it runs the probe,
\* returns True if the probe exited with 0 and raises ConnectionFailed
\* otherwise; nothing else escapes.
C16_IsAliveOutcome ==
    IsAliveFinished =>
        /\ obs.errors = <<>> => (ret = Returned("is_alive", 1) /\ obs.probe = None)
        /\ obs.errors # <<>> =>
              /\ obs.probe # None
              /\ ret = IF ~obs.probe[1].error /\ obs.probe[1].returncode = 0
                       THEN Returned("is_alive", 1)
                       ELSE Raised("is_alive", "ConnectionFailed")
        /\ ret.kind = "raise" => ret.exc = "ConnectionFailed"

\* C16 witness: the SSH-level check ended in a NameError, the probe succeeded
C16_Witness ==
    /\ IsAliveFinished /\ obs.errors = <<"NameError">>
    /\ obs.probe = <<[error |-> FALSE, returncode |-> 0]>>
    /\ ret = Returned("is_alive", 1)

\* C17: ping_host() returns True exactly when the probe was invoked and
\* exited with code 0, and False otherwise, also when invoking it raised.
C17_PingTrueIffExitZero ==
    obs.op = "ping_host" =>
        /\ ret.kind = "return" /\ ret.val \in {0, 1}
        /\ ret.val = 1 <=>
              (obs.probe # None /\ ~obs.probe[1].error /\ obs.probe[1].returncode = 0)

\* C17 witness: invoking the probe raised, ping_host returned False
C17_Witness ==
    /\ obs.op = "ping_host" /\ obs.probe # None /\ obs.probe[1].error
    /\ ret = Returned("ping_host", 0)

\* C18: the exit status is read only after both end-of-stream markers were
\* dequeued, and never on the path that raises CommandTimeout.
C18_ExitStatusAfterBothMarkers ==
    /\ ex.exit_reads > 0 => (ex.stdout_done /\ ex.stderr_done /\ ex.raising = "")
    /\ (ExecuteFinished /\ ret.kind = "raise") => ex.exit_reads = 0

\* C18 witness: the command had exited when CommandTimeout was raised, and
\* its exit status was not read
C18_Witness ==
    /\ ExecuteFinished /\ ret.exc = "CommandTimeout"
    /\ remote.exited /\ ~ex.stdout_done /\ ~ex.stderr_done
    /\ ex.exit_reads = 0

\* C19: a command that completes in time without writing a line makes
\* execute() return its exit status, with no callback invocation.
C19_NoOutputStillReturns ==
    (ExecuteFinished /\ remote.in_time /\ \A s \in Streams : remote.lines[s] = <<>>) =>
        /\ ret = Returned("execute", remote.exit_status)
        /\ cb_log = <<>>

\* C20: the callback is invoked only by an iteration of the drain loop that
\* dequeued a line, with that line formatted: not by a reader, not for an
\* end-of-stream marker, not after execute() returned or raised.
C20_CallbackOnlyInDrainLoop ==
    [][(cb_log' # cb_log /\ cb_log' # <<>>) =>
          /\ ex.pc = "drain" /\ ex.cb
          /\ output_queue # <<>> /\ Head(output_queue)[2] # None
          /\ cb_log' = Append(cb_log, Format(Head(output_queue)[1],
                                             Head(output_queue)[2]))]_vars

\* C20 witness: execute() raised CommandTimeout for a caller with a callback
\* while an abandoned reader still has a line to read
C20_Witness ==
    /\ ExecuteFinished /\ ret.exc = "CommandTimeout" /\ ex.cb
    /\ \E s \in Streams : thread[s] = "running" /\ remote.lines[s] # <<>>
    /\ cb_log = <<>>

====
